---- MODULE Spec2Model ----
(***************************************************************************)
(* Model of src/debugger/sourceMap.ts (class SourceMapUtil).                *)
(*                                                                         *)
(* Strings are TLA+ strings handled character by character (Len, SubSeq,   *)
(* \o).  Regular expressions are matched as ECMAScript matches them:       *)
(* leftmost start, lazy and greedy quantifiers resolved by backtracking,   *)
(* `.` excluding line terminators, `\s` including them, `$` under the m    *)
(* flag holding at the end of input and before a line terminator.          *)
(* The node `path` module is the POSIX one (path.sep = "/").               *)
(***************************************************************************)
EXTENDS Integers, Sequences, FiniteSets, TLC

VARIABLES op, args, result, lastIndex, calls, pass, orig

vars == <<op, args, result, lastIndex, calls, pass, orig>>

(***************************************************************************)
(* Bounds of the model.                                                    *)
(***************************************************************************)
MaxLines == 2
MaxSources == 2
MaxSections == 2

(***************************************************************************)
(* Evaluation.  With(v, F) is F(v) with v computed once, before F uses it: *)
(* TLC binds the x of a set constructor to a value, where it would         *)
(* recompute the definition of a LET at each use.                          *)
(***************************************************************************)
With(v, F(_)) == CHOOSE out \in {F(x) : x \in {v}} : TRUE

(***************************************************************************)
(* Strings.                                                                *)
(***************************************************************************)
Min(S) == With(S, LAMBDA T : CHOOSE m \in T : \A n \in T : m <= n)

Max(S) == With(S, LAMBDA T : CHOOSE m \in T : \A n \in T : m >= n)

\* The character at position i, "" outside the string.
CharAt(s, i) == IF 1 <= i /\ i <= Len(s) THEN SubSeq(s, i, i) ELSE ""

StartsWithAt(s, i, lit) == i + Len(lit) - 1 <= Len(s) /\ SubSeq(s, i, i + Len(lit) - 1) = lit

\* String.prototype.indexOf: the 1-based position of the first occurrence, 0 when there is none.
IndexOf(s, lit) ==
  With({i \in 1..(Len(s) + 1) : StartsWithAt(s, i, lit)},
       LAMBDA hits : IF hits = {} THEN 0 ELSE Min(hits))

\* ECMAScript LineTerminator: what `.` refuses and what `$` (flag m) stops before.
IsLineTerminator(c) == c \in {"\n", "\r"}

\* ECMAScript \s.
IsWhiteSpace(c) == c \in {" ", "\t", "\n", "\r"}

\* [a-zA-Z]
IsAsciiLetter(c) ==
  c \in {"a","b","c","d","e","f","g","h","i","j","k","l","m","n","o","p","q","r","s","t","u","v","w","x","y","z",
         "A","B","C","D","E","F","G","H","I","J","K","L","M","N","O","P","Q","R","S","T","U","V","W","X","Y","Z"}

\* The length of the longest run of characters from position i on that `.` accepts.
DotRun(s, i) ==
  With({j \in i..Len(s) : IsLineTerminator(CharAt(s, j))},
       LAMBDA stops : IF stops = {} THEN Len(s) + 1 - i ELSE Min(stops) - i)

\* The length of the longest run of characters from position i on that `\s` accepts.
SpaceRun(s, i) ==
  With({j \in i..Len(s) : ~IsWhiteSpace(CharAt(s, j))},
       LAMBDA stops : IF stops = {} THEN Len(s) + 1 - i ELSE Min(stops) - i)

\* `$` under the m flag, at the position before character i.
AtLineEnd(s, i) == i = Len(s) + 1 \/ IsLineTerminator(CharAt(s, i))

\* `^` under the m flag, at the position before character i.
AtLineStart(s, i) == i = 1 \/ IsLineTerminator(CharAt(s, i - 1))

NoMatch == [found |-> FALSE, index |-> 0, end |-> 0, g1 |-> "", g2 |-> ""]

(***************************************************************************)
(* /\/\/(#|@) sourceMappingURL=((?!data:).+?)\s*$/m tried at one start     *)
(* position i, the value starting at p = i + 21.  `.+?` takes the fewest   *)
(* characters n after which `\s*$` can match; `\s*` then takes the most,   *)
(* k.  `end` is the position after the match.                              *)
(***************************************************************************)
ValueLengths(s, p) ==
  {n \in 1..DotRun(s, p) : \E k \in 0..SpaceRun(s, p + n) : AtLineEnd(s, p + n + k)}

SourceMapURLRegexAt(s, i) ==
  IF /\ StartsWithAt(s, i, "//")
     /\ CharAt(s, i + 2) \in {"#", "@"}
     /\ StartsWithAt(s, i + 3, " sourceMappingURL=")
     /\ ~StartsWithAt(s, i + 21, "data:")
     /\ i + 21 <= Len(s)
  THEN With(ValueLengths(s, i + 21), LAMBDA lens :
         IF lens = {} THEN NoMatch
         ELSE With(Min(lens), LAMBDA n :
                With(Max({j \in 0..SpaceRun(s, i + 21 + n) : AtLineEnd(s, i + 21 + n + j)}), LAMBDA k :
                  [found |-> TRUE, index |-> i, end |-> i + 21 + n + k,
                   g1 |-> CharAt(s, i + 2), g2 |-> SubSeq(s, i + 21, i + 20 + n)])))
  ELSE NoMatch

\* The leftmost match of the pattern that starts at position from or later.
SourceMapURLRegexFrom(s, from) ==
  With({i \in from..Len(s) : SourceMapURLRegexAt(s, i).found}, LAMBDA starts :
    IF starts = {} THEN NoMatch
    ELSE With(Min(starts), LAMBDA i : SourceMapURLRegexAt(s, i)))

\* SourceMapURLRegex has no g flag: exec always searches from the start and
\* neither reads nor writes lastIndex.
SourceMapURLRegex(s) == SourceMapURLRegexFrom(s, 1)

(***************************************************************************)
(* RegExpBuiltinExec on SourceMapURLGlobalRegex (flag g): the search       *)
(* starts at lastIndex (0-based), a match leaves lastIndex after it and a  *)
(* failure resets lastIndex to 0.                                          *)
(***************************************************************************)
SourceMapURLGlobalRegexExec(s, li) ==
  With(IF li > Len(s) THEN NoMatch ELSE SourceMapURLRegexFrom(s, li + 1), LAMBDA m :
    [m |-> m, lastIndex |-> IF m.found THEN m.end - 1 ELSE 0])

RECURSIVE MatchLoop(_, _, _)
MatchLoop(s, li, acc) ==
  With(SourceMapURLGlobalRegexExec(s, li), LAMBDA r :
    IF r.m.found
    THEN With(Append(acc, SubSeq(s, r.m.index, r.m.end - 1)), LAMBDA acc1 :
           MatchLoop(s, r.lastIndex, acc1))
    ELSE [matches |-> acc, lastIndex |-> r.lastIndex])

\* A use of the global pattern that tests once from wherever the cursor was
\* left and leaves the cursor after the match.
StringMatchGlobalNoReset(s, li) ==
  With(SourceMapURLGlobalRegexExec(s, li), LAMBDA r :
    [matches |-> IF r.m.found THEN <<SubSeq(s, r.m.index, r.m.end - 1)>> ELSE <<>>,
     lastIndex |-> r.lastIndex])

\* String.prototype.match with SourceMapURLGlobalRegex (RegExp.prototype[@@match],
\* flag g): lastIndex is set to 0, exec is repeated until it fails, and the
\* matched substrings are collected.  li is the cursor the previous use left.
StringMatchGlobal(s, li) == MatchLoop(s, 0, <<>>)

\* A reader that takes the first of the matches.
getSourceMapRelativeUrlFirst(body, li) ==
  With(StringMatchGlobal(body, li), LAMBDA r :
    IF r.matches # <<>>
    THEN With(SourceMapURLRegex(r.matches[1]), LAMBDA sourceMapMatch :
           [isNull |-> ~sourceMapMatch.found,
            value |-> IF sourceMapMatch.found THEN sourceMapMatch.g2 ELSE "",
            lastIndex |-> r.lastIndex])
    ELSE [isNull |-> TRUE, value |-> "", lastIndex |-> r.lastIndex])

(***************************************************************************)
(* getSourceMapRelativeUrl: the capture group of the last match, null when *)
(* there is none.                                                          *)
(***************************************************************************)
getSourceMapRelativeUrl(body, li) ==
  With(StringMatchGlobal(body, li), LAMBDA r :
    IF r.matches # <<>>
    THEN With(r.matches[Len(r.matches)], LAMBDA last :
           With(SourceMapURLRegex(last), LAMBDA sourceMapMatch :
             [isNull |-> ~sourceMapMatch.found,
              value |-> IF sourceMapMatch.found THEN sourceMapMatch.g2 ELSE "",
              lastIndex |-> r.lastIndex]))
    ELSE [isNull |-> TRUE, value |-> "", lastIndex |-> r.lastIndex])

(***************************************************************************)
(* path.basename (POSIX): the last segment, trailing slashes dropped.      *)
(***************************************************************************)
StripTrailingSlashes(p) ==
  With({i \in 1..Len(p) : CharAt(p, i) # "/"}, LAMBDA others :
    IF others = {} THEN "" ELSE SubSeq(p, 1, Max(others)))

basename(path) ==
  With(StripTrailingSlashes(path), LAMBDA q :
    With({i \in 1..Len(q) : CharAt(q, i) = "/"}, LAMBDA slashes :
      IF slashes = {} THEN q ELSE SubSeq(q, Max(slashes) + 1, Len(q))))

(***************************************************************************)
(* updateScriptPaths: String.prototype.replace with the pattern without g  *)
(* replaces the first match, trailing whitespace the pattern took          *)
(* included, by the new comment.  (The pathnames of the model hold no `$`, *)
(* which replace would expand in the replacement.)                         *)
\* A replacement that keeps the leading token the comment had.
updateScriptPathsKeepToken(scriptBody, pathname) ==
  With(SourceMapURLRegex(scriptBody), LAMBDA m :
    IF m.found
    THEN SubSeq(scriptBody, 1, m.index - 1)
           \o "//" \o m.g1 \o " sourceMappingURL=" \o basename(pathname)
           \o SubSeq(scriptBody, m.end, Len(scriptBody))
    ELSE scriptBody)

(***************************************************************************)
updateScriptPaths(scriptBody, pathname) ==
  With(SourceMapURLRegex(scriptBody), LAMBDA m :
    IF m.found
    THEN SubSeq(scriptBody, 1, m.index - 1)
           \o "//# sourceMappingURL=" \o basename(pathname)
           \o SubSeq(scriptBody, m.end, Len(scriptBody))
    ELSE scriptBody)

(***************************************************************************)
(* /^\/\/[#@] ?sourceURL=(.+)$/m and removeSourceURL.                       *)
(***************************************************************************)
SourceURLRegexAt(s, i) ==
  With(IF CharAt(s, i + 3) = " " THEN i + 14 ELSE i + 13, LAMBDA p :
    IF /\ AtLineStart(s, i)
       /\ StartsWithAt(s, i, "//")
       /\ CharAt(s, i + 2) \in {"#", "@"}
       /\ StartsWithAt(s, p - 10, "sourceURL=")
       /\ p <= Len(s)
       /\ DotRun(s, p) >= 1
    THEN With(DotRun(s, p), LAMBDA n :
           [found |-> TRUE, index |-> i, end |-> p + n, g1 |-> SubSeq(s, p, p + n - 1), g2 |-> ""])
    ELSE NoMatch)

SourceURLRegex(s) ==
  With({i \in 1..Len(s) : SourceURLRegexAt(s, i).found}, LAMBDA starts :
    IF starts = {} THEN NoMatch
    ELSE With(Min(starts), LAMBDA i : SourceURLRegexAt(s, i)))

removeSourceURL(scriptBody) ==
  With(SourceURLRegex(scriptBody), LAMBDA m :
    IF m.found
    THEN SubSeq(scriptBody, 1, m.index - 1) \o SubSeq(scriptBody, m.end, Len(scriptBody))
    ELSE scriptBody)

appendSourceMapPaths(scriptBody, sourceMappingUrl) ==
  scriptBody \o "//# sourceMappingURL=" \o sourceMappingUrl

(***************************************************************************)
(* JSON.  A value is a record tagged by its JavaScript type; an object is  *)
(* the sequence of its members in insertion order.  A text is a sequence   *)
(* of lexical tokens.                                                      *)
(***************************************************************************)
Undefined == [t |-> "undefined"]

Null == [t |-> "null"]

Num(n) == [t |-> "number", n |-> n]

Str(s) == [t |-> "string", s |-> s]

Arr(a) == [t |-> "array", a |-> a]

Obj(o) == [t |-> "object", o |-> o]

Member(k, v) == [k |-> k, v |-> v]

Tok(c) == [tk |-> c]

TokStr(s) == [tk |-> "str", s |-> s]

TokNum(n) == [tk |-> "num", n |-> n]

\* ToBoolean
Truthy(v) ==
  CASE v.t = "undefined" -> FALSE
    [] v.t = "null" -> FALSE
    [] v.t = "number" -> v.n # 0
    [] v.t = "string" -> v.s # ""
    [] OTHER -> TRUE

HasOwn(v, k) == v.t = "object" /\ \E i \in 1..Len(v.o) : v.o[i].k = k

\* v[k] for a data property k of a value that is neither null nor undefined.
Get(v0, k) ==
  With(v0, LAMBDA v :
    IF HasOwn(v, k) THEN v.o[CHOOSE i \in 1..Len(v.o) : v.o[i].k = k].v ELSE Undefined)

\* v[k] = x on an object: an existing member keeps its place, a new one goes last.
Put(v0, k, x0) ==
  With(v0, LAMBDA v : With(x0, LAMBDA x :
    IF HasOwn(v, k)
    THEN Obj([i \in 1..Len(v.o) |-> IF v.o[i].k = k THEN Member(k, x) ELSE v.o[i]])
    ELSE Obj(Append(v.o, Member(k, x)))))

\* delete v[k]
Delete(v0, k) == With(v0, LAMBDA v : LET keep(m) == m.k # k IN Obj(SelectSeq(v.o, keep)))

RECURSIVE JSON_stringify(_)
RECURSIVE StringifyElements(_, _)
RECURSIVE StringifyMembers(_, _, _)

\* The elements of array a from index i on, separated by commas.
StringifyElements(a, i) ==
  IF i > Len(a) THEN <<>>
  ELSE (IF i > 1 THEN <<Tok(",")>> ELSE <<>>)
         \o (IF a[i].t = "undefined" THEN <<Tok("null")>> ELSE JSON_stringify(a[i]))
         \o StringifyElements(a, i + 1)

\* The members of o from index i on; members whose value is undefined are left out.
StringifyMembers(o, i, first) ==
  IF i > Len(o) THEN <<>>
  ELSE IF o[i].v.t = "undefined" THEN StringifyMembers(o, i + 1, first)
  ELSE (IF first THEN <<>> ELSE <<Tok(",")>>)
         \o <<TokStr(o[i].k), Tok(":")>> \o JSON_stringify(o[i].v)
         \o StringifyMembers(o, i + 1, FALSE)

JSON_stringify(v0) ==
  With(v0, LAMBDA v :
    CASE v.t = "null" -> <<Tok("null")>>
      [] v.t = "number" -> <<TokNum(v.n)>>
      [] v.t = "string" -> <<TokStr(v.s)>>
      [] v.t = "array" -> <<Tok("[")>> \o StringifyElements(v.a, 1) \o <<Tok("]")>>
      [] v.t = "object" -> <<Tok("{")>> \o StringifyMembers(v.o, 1, TRUE) \o <<Tok("}")>>)

ParseFail == [ok |-> FALSE, v |-> Undefined, next |-> 0]

TokAt(ts, i) == IF 1 <= i /\ i <= Len(ts) THEN ts[i] ELSE Tok("eof")

RECURSIVE ParseValue(_, _)
RECURSIVE ParseElements(_, _, _)
RECURSIVE ParseMembers(_, _, _)

\* The elements of an array from token i on, after `[` or a comma.
ParseElements(ts, i, acc) ==
  With(ParseValue(ts, i), LAMBDA e :
    IF ~e.ok THEN ParseFail
    ELSE With(Append(acc, e.v), LAMBDA acc1 :
           IF TokAt(ts, e.next).tk = "," THEN ParseElements(ts, e.next + 1, acc1)
           ELSE IF TokAt(ts, e.next).tk = "]" THEN [ok |-> TRUE, v |-> Arr(acc1), next |-> e.next + 1]
           ELSE ParseFail))

\* The members of an object from token i on, after `{` or a comma; a repeated
\* key takes the later value.
ParseMembers(ts, i, acc) ==
  IF TokAt(ts, i).tk # "str" \/ TokAt(ts, i + 1).tk # ":" THEN ParseFail
  ELSE With(ParseValue(ts, i + 2), LAMBDA e :
         IF ~e.ok THEN ParseFail
         ELSE With(Put(acc, ts[i].s, e.v), LAMBDA obj :
                IF TokAt(ts, e.next).tk = "," THEN ParseMembers(ts, e.next + 1, obj)
                ELSE IF TokAt(ts, e.next).tk = "}" THEN [ok |-> TRUE, v |-> obj, next |-> e.next + 1]
                ELSE ParseFail))

ParseValue(ts, i0) ==
  With(i0, LAMBDA i : With(TokAt(ts, i), LAMBDA tok :
    CASE tok.tk = "null" -> [ok |-> TRUE, v |-> Null, next |-> i + 1]
      [] tok.tk = "num" -> [ok |-> TRUE, v |-> Num(tok.n), next |-> i + 1]
      [] tok.tk = "str" -> [ok |-> TRUE, v |-> Str(tok.s), next |-> i + 1]
      [] tok.tk = "[" -> IF TokAt(ts, i + 1).tk = "]"
                         THEN [ok |-> TRUE, v |-> Arr(<<>>), next |-> i + 2]
                         ELSE ParseElements(ts, i + 1, <<>>)
      [] tok.tk = "{" -> IF TokAt(ts, i + 1).tk = "}"
                         THEN [ok |-> TRUE, v |-> Obj(<<>>), next |-> i + 2]
                         ELSE ParseMembers(ts, i + 1, Obj(<<>>))
      [] OTHER -> ParseFail))

\* JSON.parse: the whole text must be one value; ok is FALSE where it throws SyntaxError.
JSON_parse(text) ==
  With(text, LAMBDA ts : With(ParseValue(ts, 1), LAMBDA r :
    IF r.ok /\ r.next = Len(ts) + 1 THEN r ELSE ParseFail))

(***************************************************************************)
(* The node path module, POSIX flavour.                                    *)
(***************************************************************************)
\* String.prototype.split(sep) for a one-character sep.
RECURSIVE Split(_, _)
Split(p0, sep) ==
  With(p0, LAMBDA p : With(IndexOf(p, sep), LAMBDA i :
    IF i = 0 THEN <<p>> ELSE <<SubSeq(p, 1, i - 1)>> \o Split(SubSeq(p, i + 1, Len(p)), sep)))

\* Array.prototype.join
RECURSIVE Join(_, _)
Join(segs0, sep) ==
  With(segs0, LAMBDA segs :
    IF segs = <<>> THEN ""
    ELSE IF Len(segs) = 1 THEN segs[1]
    ELSE segs[1] \o sep \o Join(Tail(segs), sep))

\* normalizeString: `.` and empty segments go, `..` takes the segment before
\* it, and stays when there is none and the path may climb above its start.
RECURSIVE NormalizeSegments(_, _, _)
NormalizeSegments(segs0, acc0, allowAboveRoot) ==
  With(segs0, LAMBDA segs : With(acc0, LAMBDA acc :
    IF segs = <<>> THEN acc
    ELSE With(Head(segs), LAMBDA x :
           IF x = "" \/ x = "." THEN NormalizeSegments(Tail(segs), acc, allowAboveRoot)
           ELSE IF x = ".."
           THEN IF acc # <<>> /\ acc[Len(acc)] # ".."
                THEN NormalizeSegments(Tail(segs), SubSeq(acc, 1, Len(acc) - 1), allowAboveRoot)
                ELSE IF allowAboveRoot
                THEN NormalizeSegments(Tail(segs), Append(acc, ".."), allowAboveRoot)
                ELSE NormalizeSegments(Tail(segs), acc, allowAboveRoot)
           ELSE NormalizeSegments(Tail(segs), Append(acc, x), allowAboveRoot))))

isAbsolute(p) == CharAt(p, 1) = "/"

\* path.posix.normalize
normalize(p0) ==
  With(p0, LAMBDA p :
    IF p = "" THEN "."
    ELSE With(Join(NormalizeSegments(Split(p, "/"), <<>>, ~isAbsolute(p)), "/"), LAMBDA body :
           LET trailing == CharAt(p, Len(p)) = "/"
               dotted == IF body = "" /\ ~isAbsolute(p) THEN "." ELSE body
               rel == IF dotted # "" /\ trailing THEN dotted \o "/" ELSE dotted
           IN  IF isAbsolute(p) THEN "/" \o rel ELSE rel))

\* path.posix.join: the non-empty arguments joined by `/`, normalized.
posix_join(pathArgs) ==
  LET nonEmpty(x) == x # ""
  IN  With(Join(SelectSeq(pathArgs, nonEmpty), "/"), LAMBDA joined :
        IF joined = "" THEN "." ELSE normalize(joined))

\* The segments of path.resolve(p) with the process working directory cwd
\* (an absolute path): the root has none.
ResolveSegments(p0, cwd) ==
  With(p0, LAMBDA p :
    NormalizeSegments(Split(IF isAbsolute(p) THEN p ELSE cwd \o "/" \o p, "/"), <<>>, FALSE))

CommonPrefixLen(a, b) ==
  Max({n \in 0..Min({Len(a), Len(b)}) : \A i \in 1..n : a[i] = b[i]})

\* path.relative(from, to): both resolved, the shared leading segments
\* dropped, one `..` for each segment left of from.
relative(from, to, cwd) ==
  With(ResolveSegments(from, cwd), LAMBDA f :
    With(ResolveSegments(to, cwd), LAMBDA g :
      With(CommonPrefixLen(f, g), LAMBDA c :
        Join([i \in 1..(Len(f) - c) |-> ".."] \o SubSeq(g, c + 1, Len(g)), "/"))))

(***************************************************************************)
(* makeUnixStylePath: split at path.sep, which is `/` here, and join with  *)
(* path.posix.join.                                                        *)
(***************************************************************************)
makeUnixStylePath(p) == With(Split(p, "/"), LAMBDA pathArgs : posix_join(pathArgs))

\* String.prototype.replace(searchString, replaceValue) with two strings: the
\* first occurrence, wherever it is.  (No string of the model holds a `$`,
\* which replace would expand in replaceValue.)
StringReplace(s0, searchString0, replaceValue) ==
  With(s0, LAMBDA s : With(searchString0, LAMBDA searchString :
    With(IndexOf(s, searchString), LAMBDA i :
      IF i = 0 THEN s
      ELSE SubSeq(s, 1, i - 1) \o replaceValue \o SubSeq(s, i + Len(searchString), Len(s)))))

\* Lines 140-144 of updateSourceMapPath: sourcePath after the packager roots
\* have been substituted.  A root that is undefined or "" is falsy.
SubstitutePackagerRoot(sourcePath, packagerRemoteRoot, packagerLocalRoot) ==
  IF packagerRemoteRoot # "" /\ packagerLocalRoot # ""
  THEN StringReplace(sourcePath, makeUnixStylePath(packagerRemoteRoot), makeUnixStylePath(packagerLocalRoot))
  ELSE sourcePath

updateSourceMapPath(sourcePath, sourcesRootPath, packagerRemoteRoot, packagerLocalRoot, cwd) ==
  With(SubstitutePackagerRoot(sourcePath, packagerRemoteRoot, packagerLocalRoot), LAMBDA substituted :
    With(relative(sourcesRootPath, substituted, cwd), LAMBDA relativeSourcePath :
      makeUnixStylePath(relativeSourcePath)))

(***************************************************************************)
(* IS_REMOTE = /^[a-zA-z]{2,}:\/\//.  The class a-zA-z is a-z together     *)
(* with the range A-z, which holds the six characters between Z and a      *)
(* (the sixth, the backquote, cannot stand in a TLA+ string and no string  *)
(* of the model holds it).                                                 *)
(***************************************************************************)
InClass_azAz(c) == IsAsciiLetter(c) \/ c \in {"[", "\\", "]", "^", "_"}

LeadingRun(s, InClass(_)) ==
  With({j \in 1..Len(s) : ~InClass(CharAt(s, j))}, LAMBDA stops :
    IF stops = {} THEN Len(s) ELSE Min(stops) - 1)

IS_REMOTE(sourcePath) ==
  With(LeadingRun(sourcePath, InClass_azAz), LAMBDA n :
    n >= 2 /\ StartsWithAt(sourcePath, n + 1, "://"))

(***************************************************************************)
(* updateSourceMapFile.  Each collaborator call is logged in the order it  *)
(* is made: flatten-source-map, SourceMapsCombinator.convert and           *)
(* updateSourceMapPath.  A stage that throws (TypeError) ends the try      *)
(* block; the log keeps the calls made before it.                          *)
(***************************************************************************)
Call(fn, doc, path, sub, out) == [fn |-> fn, doc |-> doc, path |-> path, sub |-> sub, out |-> out]

\* The callback of sections.filter: value.map != null.  (An array has a map
\* property, Array.prototype.map; a number or a string has none.)
SectionHasMap(value) ==
  CASE value.t = "object" -> Get(value, "map").t \notin {"null", "undefined"}
    [] value.t = "array" -> TRUE
    [] OTHER -> FALSE

\* A filter that keeps every section.
FilterSectionsKeepAll(sections) == sections

\* sections.filter(value => value.map != null)
FilterSections(sections) == SelectSeq(sections, SectionHasMap)

\* The arrays found under key in the maps, one after the other.
RECURSIVE UnionOf(_, _)
UnionOf(maps, key) ==
  IF maps = <<>> THEN <<>>
  ELSE With(Get(maps[1], key), LAMBDA x :
         (IF x.t = "array" THEN x.a ELSE <<>>) \o UnionOf(Tail(maps), key))

\* require("flatten-source-map"): one flat document whose sources are those of
\* the sections' maps in section order.
flatten_source_map(sourceMap) ==
  With(Get(sourceMap, "sections").a, LAMBDA sections :
    With([i \in 1..Len(sections) |-> Get(sections[i], "map")], LAMBDA maps :
      With(Obj(<<Member("version", Num(3)),
                 Member("file", Get(sourceMap, "file")),
                 Member("sources", Arr(UnionOf(maps, "sources"))),
                 Member("mappings", Str("A"))>>), LAMBDA flat :
        IF \E i \in 1..Len(maps) : HasOwn(maps[i], "sourcesContent")
        THEN Put(flat, "sourcesContent", Arr(UnionOf(maps, "sourcesContent")))
        ELSE flat)))

\* SourceMapsCombinator.convert: the flat document in its canonical shape.
SourceMapsCombinator_convert(sourceMap) == sourceMap

\* Lines 64-72.  sourceMap.sections throws on null; sections.filter throws
\* when sections is no array; value.map throws on a null entry; the
\* flattening needs every section left to be an object with an object map.
SectionsStage(sourceMap) ==
  IF sourceMap.t = "null" THEN [threw |-> TRUE, sourceMap |-> sourceMap, calls |-> <<>>]
  ELSE With(Get(sourceMap, "sections"), LAMBDA sections :
         IF ~Truthy(sections) THEN [threw |-> FALSE, sourceMap |-> sourceMap, calls |-> <<>>]
         ELSE IF sections.t # "array" \/ \E i \in 1..Len(sections.a) : sections.a[i].t = "null"
         THEN [threw |-> TRUE, sourceMap |-> sourceMap, calls |-> <<>>]
         ELSE With(FilterSections(sections.a), LAMBDA kept :
                With(Put(sourceMap, "sections", Arr(kept)), LAMBDA filtered :
                  IF \E j \in 1..Len(kept) : kept[j].t # "object" \/ Get(kept[j], "map").t # "object"
                  THEN [threw |-> TRUE, sourceMap |-> filtered,
                        calls |-> <<Call("flatten", filtered, "", "", "")>>]
                  ELSE [threw |-> FALSE, sourceMap |-> flatten_source_map(filtered),
                        calls |-> <<Call("flatten", filtered, "", "", "")>>])))

\* A test that takes nothing for remote.
RewriteEverySource(sourcePath, sourcesRootPath, packagerRemoteRoot, packagerLocalRoot, cwd) ==
  updateSourceMapPath(sourcePath, sourcesRootPath, packagerRemoteRoot, packagerLocalRoot, cwd)

\* The callback of sources.map, line 79.
RewriteSource(sourcePath, sourcesRootPath, packagerRemoteRoot, packagerLocalRoot, cwd) ==
  IF IS_REMOTE(sourcePath) THEN sourcePath
  ELSE updateSourceMapPath(sourcePath, sourcesRootPath, packagerRemoteRoot, packagerLocalRoot, cwd)

\* The updateSourceMapPath calls line 79 makes for the entries a[i], i < stop.
RECURSIVE PathCalls(_, _, _, _, _, _, _)
PathCalls(a, i, stop, sourcesRootPath, packagerRemoteRoot, packagerLocalRoot, cwd) ==
  IF i >= stop THEN <<>>
  ELSE (IF IS_REMOTE(a[i].s) THEN <<>>
        ELSE <<Call("updateSourceMapPath", Undefined, a[i].s,
                    SubstitutePackagerRoot(a[i].s, packagerRemoteRoot, packagerLocalRoot),
                    updateSourceMapPath(a[i].s, sourcesRootPath, packagerRemoteRoot, packagerLocalRoot, cwd))>>)
         \o PathCalls(a, i + 1, stop, sourcesRootPath, packagerRemoteRoot, packagerLocalRoot, cwd)

\* Lines 77-81.  sources.map throws when sources is no array, and the path
\* functions throw on an entry that is no string.
SourcesStage(sourceMap, sourcesRootPath, packagerRemoteRoot, packagerLocalRoot, cwd) ==
  With(Get(sourceMap, "sources"), LAMBDA sources :
    IF ~Truthy(sources) THEN [threw |-> FALSE, sourceMap |-> sourceMap, calls |-> <<>>]
    ELSE IF sources.t # "array" THEN [threw |-> TRUE, sourceMap |-> sourceMap, calls |-> <<>>]
    ELSE With(sources.a, LAMBDA a :
           With(Min({i \in 1..(Len(a) + 1) : i = Len(a) + 1 \/ a[i].t # "string"}), LAMBDA firstBad :
             With(PathCalls(a, 1, firstBad, sourcesRootPath, packagerRemoteRoot, packagerLocalRoot, cwd), LAMBDA log :
               IF firstBad <= Len(a)
               THEN [threw |-> TRUE, sourceMap |-> sourceMap, calls |-> log]
               ELSE [threw |-> FALSE,
                     sourceMap |-> Put(sourceMap, "sources",
                                       Arr([i \in 1..Len(a) |->
                                              Str(RewriteSource(a[i].s, sourcesRootPath, packagerRemoteRoot,
                                                                packagerLocalRoot, cwd))])),
                     calls |-> log]))))

\* Lines 84-85 alone, the delete of line 83 left out.
FinishKeepContent(sourceMap, scriptPath) ==
  Put(Put(sourceMap, "sourceRoot", Str("")), "file", Str(scriptPath))

\* Lines 83-85.
Finish(sourceMap, scriptPath) ==
  Put(Put(Delete(sourceMap, "sourcesContent"), "sourceRoot", Str("")), "file", Str(scriptPath))

\* A catch block that returns an empty text.
CatchReturnEmpty(sourceMapBody) == <<>>

\* Lines 87-89: catch (exception) { return sourceMapBody; }
CatchReturn(sourceMapBody) == sourceMapBody

\* The order in which lines 71, 75 and 79 make their calls.
CallOrder(flattenCalls, convertCall, pathCalls) == flattenCalls \o <<convertCall>> \o pathCalls

updateSourceMapFile(sourceMapBody, scriptPath, sourcesRootPath, packagerRemoteRoot, packagerLocalRoot, cwd) ==
  With(JSON_parse(sourceMapBody), LAMBDA parsed :
    IF ~parsed.ok THEN [ret |-> CatchReturn(sourceMapBody), threw |-> TRUE, calls |-> <<>>]
    ELSE With(SectionsStage(parsed.v), LAMBDA s1 :
           IF s1.threw THEN [ret |-> CatchReturn(sourceMapBody), threw |-> TRUE, calls |-> s1.calls]
           ELSE With(SourcesStage(SourceMapsCombinator_convert(s1.sourceMap), sourcesRootPath,
                                  packagerRemoteRoot, packagerLocalRoot, cwd), LAMBDA s2 :
                  With(CallOrder(s1.calls, Call("convert", s1.sourceMap, "", "", ""), s2.calls), LAMBDA log :
                    IF s2.threw THEN [ret |-> CatchReturn(sourceMapBody), threw |-> TRUE, calls |-> log]
                    ELSE [ret |-> JSON_stringify(Finish(s2.sourceMap, scriptPath)),
                          threw |-> FALSE, calls |-> log]))))

(***************************************************************************)
(* Script bodies: up to MaxLines lines joined by line feeds, each line a   *)
(* line of code, a sourceURL comment, a `//#` map-reference comment with   *)
(* one of Values after the `=`, or a `//@` one with one of OldStyleValues. *)
(***************************************************************************)
Values == {"", "a", " a", "a ", "data:a", " ", "a//# sourceMappingURL=b"}

OldStyleValues == {"a", "data:a"}

Lines ==
  {"", "x", "//# sourceURL=a"}
    \cup {"//# sourceMappingURL=" \o v : v \in Values}
    \cup {"//@ sourceMappingURL=" \o v : v \in OldStyleValues}

RECURSIVE BodiesOf(_)
BodiesOf(n) == IF n = 1 THEN Lines ELSE {b \o "\n" \o l : b \in BodiesOf(n - 1), l \in Lines}

Bodies == UNION {BodiesOf(n) : n \in 1..MaxLines}

(***************************************************************************)
(* Source maps.  A flat document has up to MaxSources sources; a sectioned *)
(* one has up to MaxSections sections, whose map is null, missing or a     *)
(* flat document, or which are themselves null.  Texts are the documents   *)
(* serialized, the text `null`, and texts that are no JSON.                *)
(***************************************************************************)
SourcePaths == {"/r/a/b.js", "/q/r/a/b.js", "a\\b.js", "http://h/a.js", "__://x"}

SeqsUpTo(S, n) == UNION {[1..m -> S] : m \in 0..n}

FlatDoc(sources, withContent) ==
  LET base == Obj(<<Member("version", Num(3)),
                    Member("sources", Arr([i \in 1..Len(sources) |-> Str(sources[i])])),
                    Member("mappings", Str("A")),
                    Member("file", Str("old.js"))>>)
  IN  IF withContent
      THEN Put(base, "sourcesContent", Arr([i \in 1..Len(sources) |-> Str("x")]))
      ELSE Put(base, "sourceRoot", Str("/sr"))

FlatDocs == {FlatDoc(ss, c) : ss \in SeqsUpTo(SourcePaths, MaxSources), c \in BOOLEAN}

Offset == Obj(<<Member("line", Num(0)), Member("column", Num(0))>>)

SectionEntries ==
  { Obj(<<Member("offset", Offset), Member("map", Null)>>),
    Obj(<<Member("offset", Offset)>>),
    Obj(<<Member("offset", Offset), Member("map", FlatDoc(<<"/r/a/b.js">>, FALSE))>>),
    Obj(<<Member("offset", Offset), Member("map", FlatDoc(<<"a\\b.js", "http://h/a.js">>, TRUE))>>),
    Null }

SectionedDocs ==
  {Obj(<<Member("version", Num(3)), Member("sections", Arr(es))>>) : es \in SeqsUpTo(SectionEntries, MaxSections)}

OddDocs ==
  { Null,
    Obj(<<>>),
    Obj(<<Member("sections", Num(5)), Member("sourcesContent", Arr(<<Str("x")>>))>>),
    Obj(<<Member("sources", Num(5)), Member("sourcesContent", Arr(<<Str("x")>>))>>),
    Obj(<<Member("sources", Arr(<<Str("/r/a/b.js"), Null>>))>>),
    Obj(<<Member("sections", Null), Member("sources", Arr(<<Str("/r/a/b.js")>>)),
          Member("sourcesContent", Arr(<<Str("x")>>))>>) }

Docs == FlatDocs \cup SectionedDocs \cup OddDocs

\* Texts that JSON.parse refuses: a text cut short, a text with a token too
\* many, a text without its first token, the empty text.
BrokenTexts ==
  LET few == {JSON_stringify(d) : d \in OddDocs \cup {FlatDoc(ss, c) : ss \in SeqsUpTo(SourcePaths, 1), c \in BOOLEAN}}
  IN  {<<>>} \cup {SubSeq(t, 1, Len(t) - 1) : t \in few}
             \cup {Append(t, Tok("}")) : t \in few}
             \cup {SubSeq(t, 2, Len(t)) : t \in few \ {JSON_stringify(Obj(<<>>))}}

Texts == {JSON_stringify(d) : d \in Docs} \cup BrokenTexts

ScriptPaths == {"/o/i.js", "j.js"}

SourcesRoots == {"/r"}

WorkingDirs == {"/r", "/c"}

\* packagerRemoteRoot and packagerLocalRoot; "" stands for one not given.
PackagerRoots == {<<"", "">>, <<"/r", "/l">>, <<"/r", "">>}

\* sourceMappingUrl.pathname of updateScriptPaths, sourceMappingUrl of appendSourceMapPaths.
Pathnames == {"/m/y.map", "/d/"}

(***************************************************************************)
(* State.  op is the method that has been called and has not yet handed    *)
(* its result back ("" when none), args its arguments, result what it      *)
(* returned.  lastIndex is the cursor of the static SourceMapURLGlobalRegex,*)
(* the only member of the class with the g flag and so the only one whose  *)
(* cursor a match reads or writes.  calls is the log of the collaborator   *)
(* calls updateSourceMapFile made; pass counts its consecutive             *)
(* applications and orig is the text the first of them was given.          *)
(***************************************************************************)
NoArgs == [body |-> "", url |-> "", text |-> <<>>, scriptPath |-> "", root |-> "",
           remote |-> "", local |-> "", cwd |-> ""]

NoResult == [isNull |-> FALSE, value |-> "", text |-> <<>>, threw |-> FALSE]

Init ==
  /\ op = ""
  /\ args = NoArgs
  /\ result = NoResult
  /\ lastIndex = 0
  /\ calls = <<>>
  /\ pass = 0
  /\ orig = <<>>

GetSourceMapRelativeUrl ==
  /\ op = ""
  /\ \E body \in Bodies :
     \E r \in {getSourceMapRelativeUrl(body, lastIndex)} :
       /\ op' = "getSourceMapRelativeUrl"
       /\ args' = [NoArgs EXCEPT !.body = body]
       /\ result' = [NoResult EXCEPT !.isNull = r.isNull, !.value = r.value]
       /\ lastIndex' = r.lastIndex
  /\ UNCHANGED <<calls, pass, orig>>

UpdateScriptPaths ==
  /\ op = ""
  /\ \E body \in Bodies, pathname \in Pathnames :
       /\ op' = "updateScriptPaths"
       /\ args' = [NoArgs EXCEPT !.body = body, !.url = pathname]
       /\ result' = [NoResult EXCEPT !.value = updateScriptPaths(body, pathname)]
  /\ UNCHANGED <<lastIndex, calls, pass, orig>>

RemoveSourceURL ==
  /\ op = ""
  /\ \E body \in Bodies :
       /\ op' = "removeSourceURL"
       /\ args' = [NoArgs EXCEPT !.body = body]
       /\ result' = [NoResult EXCEPT !.value = removeSourceURL(body)]
  /\ UNCHANGED <<lastIndex, calls, pass, orig>>

AppendSourceMapPaths ==
  /\ op = ""
  /\ \E body \in Bodies, sourceMappingUrl \in Pathnames :
       /\ op' = "appendSourceMapPaths"
       /\ args' = [NoArgs EXCEPT !.body = body, !.url = sourceMappingUrl]
       /\ result' = [NoResult EXCEPT !.value = appendSourceMapPaths(body, sourceMappingUrl)]
  /\ UNCHANGED <<lastIndex, calls, pass, orig>>

UpdateSourceMapFile ==
  /\ op = ""
  /\ \E text \in Texts, scriptPath \in ScriptPaths, root \in SourcesRoots,
        pk \in PackagerRoots, cwd \in WorkingDirs :
     \E r \in {updateSourceMapFile(text, scriptPath, root, pk[1], pk[2], cwd)} :
       /\ op' = "updateSourceMapFile"
       /\ args' = [NoArgs EXCEPT !.text = text, !.scriptPath = scriptPath, !.root = root,
                                 !.remote = pk[1], !.local = pk[2], !.cwd = cwd]
       /\ result' = [NoResult EXCEPT !.text = r.ret, !.threw = r.threw]
       /\ calls' = r.calls
       /\ pass' = 1
       /\ orig' = text
  /\ UNCHANGED lastIndex

\* updateSourceMapFile applied to what the previous call of it returned, with
\* the same other arguments.
UpdateSourceMapFileAgain ==
  /\ op = "updateSourceMapFile"
  /\ pass = 1
  /\ \E r \in {updateSourceMapFile(result.text, args.scriptPath, args.root, args.remote, args.local, args.cwd)} :
       /\ args' = [args EXCEPT !.text = result.text]
       /\ result' = [NoResult EXCEPT !.text = r.ret, !.threw = r.threw]
       /\ calls' = r.calls
       /\ pass' = 2
  /\ UNCHANGED <<op, lastIndex, orig>>

\* The call returns: its arguments and locals are gone, the static members stay.
Return ==
  /\ op # ""
  /\ op' = ""
  /\ args' = NoArgs
  /\ result' = NoResult
  /\ calls' = <<>>
  /\ pass' = 0
  /\ orig' = <<>>
  /\ UNCHANGED lastIndex

Next ==
  \/ GetSourceMapRelativeUrl
  \/ UpdateScriptPaths
  \/ RemoveSourceURL
  \/ AppendSourceMapPaths
  \/ UpdateSourceMapFile
  \/ UpdateSourceMapFileAgain
  \/ Return

Spec == Init /\ [][Next]_vars

(***************************************************************************)
(* What the properties below speak of, stated on the text itself and not   *)
(* through the matcher.                                                     *)
(***************************************************************************)
IsLocate == op = "getSourceMapRelativeUrl"

IsRetarget == op = "updateScriptPaths"

IsRewrite == op = "updateSourceMapFile"

TrimRight(s) ==
  With({i \in 1..Len(s) : ~IsWhiteSpace(CharAt(s, i))}, LAMBDA solid :
    IF solid = {} THEN "" ELSE SubSeq(s, 1, Max(solid)))

TrimBoth(s) ==
  With({i \in 1..Len(s) : ~IsWhiteSpace(CharAt(s, i))}, LAMBDA solid :
    IF solid = {} THEN "" ELSE SubSeq(s, Min(solid), Max(solid)))

RestOfLine(s, p) == SubSeq(s, p, p + DotRun(s, p) - 1)

\* A map-reference comment starts at i: either leading token, a value that
\* is not empty and does not begin with data:.
Qualifies(s, i) ==
  /\ StartsWithAt(s, i, "//# sourceMappingURL=") \/ StartsWithAt(s, i, "//@ sourceMappingURL=")
  /\ ~StartsWithAt(s, i + 21, "data:")
  /\ DotRun(s, i + 21) >= 1

AllComments(s) == {i \in 1..Len(s) : Qualifies(s, i)}

\* The comments that are not themselves inside the value of an earlier
\* comment of the same line.
Comments(s) ==
  With(AllComments(s), LAMBDA all :
    {i \in all : ~\E j \in all : j < i /\ j + DotRun(s, j) > i})

\* The value of a comment as the pattern captures it: the rest of the line
\* without its trailing whitespace, its first character when it is all whitespace.
KeptValue(r) ==
  With(TrimRight(r), LAMBDA kept : IF kept = "" THEN SubSeq(r, 1, 1) ELSE kept)

\* The position after the comment at i and the whitespace the pattern takes
\* with it: all the whitespace that follows the value, up to the last place
\* in it where a line ends.
EndOfComment(s, i) ==
  With(i + 21 + Len(KeptValue(RestOfLine(s, i + 21))), LAMBDA e :
    e + Max({k \in 0..SpaceRun(s, e) : AtLineEnd(s, e + k)}))

\* ^[A-Za-z]{2,}://
MatchesRemoteScheme(sourcePath) ==
  With(LeadingRun(sourcePath, IsAsciiLetter), LAMBDA n :
    n >= 2 /\ StartsWithAt(sourcePath, n + 1, "://"))

HasBackslash(s) == \E i \in 1..Len(s) : CharAt(s, i) = "\\"

StartsWith(s, prefix) == StartsWithAt(s, 1, prefix)

\* The strings of an array of strings, <<>> for anything else.
StringsOf(v) ==
  IF v.t = "array" /\ \A i \in 1..Len(v.a) : v.a[i].t = "string"
  THEN [i \in 1..Len(v.a) |-> v.a[i].s]
  ELSE <<>>

IsStringArray(v) == v.t = "array" /\ \A i \in 1..Len(v.a) : v.a[i].t = "string"

CallsOf(fn) == {i \in 1..Len(calls) : calls[i].fn = fn}

\* The document the call was given and the one it returned, when they parse.
InDoc == JSON_parse(args.text)

OutDoc == JSON_parse(result.text)

(***************************************************************************)
(* C1.  When rawMapText does not parse as JSON, whatever the other         *)
(* arguments, updateSourceMapFile returns exactly rawMapText.              *)
(***************************************************************************)
C1_ParseFailureReturnsInput ==
  IsRewrite => (result.text = args.text \/ InDoc.ok)

C1_Witness ==
  /\ IsRewrite
  /\ ~InDoc.ok
  /\ Len(args.text) > 1
  /\ args.remote # ""
  /\ result.text = args.text

(***************************************************************************)
(* C2, as claimed.  Whenever rawMapText parses as JSON, whatever the       *)
(* parsed document holds, the returned text is a document without          *)
(* sourcesContent, with sourceRoot "" and file equal to scriptPath.        *)
(***************************************************************************)
StrippedAndRetargeted(doc) ==
  /\ doc.t = "object"
  /\ ~HasOwn(doc, "sourcesContent")
  /\ Get(doc, "sourceRoot") = Str("")
  /\ Get(doc, "file") = Str(args.scriptPath)

C2_Original ==
  IsRewrite =>
    \E in \in {InDoc}, out \in {OutDoc} :
      in.ok => (out.ok /\ StrippedAndRetargeted(out.v))

(***************************************************************************)
(* C2, amended.  Whenever rawMapText parses as JSON and no later step      *)
(* throws, the returned text is a document without sourcesContent, with    *)
(* sourceRoot "" and file equal to scriptPath; when a later step throws,   *)
(* the returned text is rawMapText as it was.                              *)
(***************************************************************************)
C2_StrippedUnlessFallback ==
  IsRewrite =>
    \E in \in {InDoc}, out \in {OutDoc} :
      in.ok =>
        IF result.threw
        THEN result.text = args.text
        ELSE out.ok /\ StrippedAndRetargeted(out.v)

C2_Witness ==
  /\ IsRewrite
  /\ pass = 1
  /\ InDoc.ok
  /\ ~result.threw
  /\ \E in \in {InDoc.v}, out \in {OutDoc.v} :
       /\ HasOwn(in, "sourcesContent")
       /\ Get(in, "file") # Str(args.scriptPath)
       /\ StrippedAndRetargeted(out)

(***************************************************************************)
(* C3, as claimed.  getSourceMapRelativeUrl returns the value of the last  *)
(* qualifying comment of the body with the whitespace on both sides of it  *)
(* removed, and returns null exactly when the body has no qualifying       *)
(* comment.                                                                *)
(***************************************************************************)
C3_Original ==
  IsLocate =>
    \E all \in {AllComments(args.body)} :
      /\ result.isNull <=> all = {}
      /\ all # {} => result.value = TrimBoth(RestOfLine(args.body, Max(all) + 21))

(***************************************************************************)
(* C3, amended.  getSourceMapRelativeUrl returns null exactly when the     *)
(* body has no qualifying comment; otherwise it returns the value of the   *)
(* last comment that is not inside the value of an earlier comment of its  *)
(* line, without the whitespace that follows the value; whitespace in      *)
(* front of the value is kept, and of a value that is only whitespace the  *)
(* first character is returned.                                            *)
(***************************************************************************)
C3_LastCommentTrailingTrimmed ==
  IsLocate =>
    \E found \in {Comments(args.body)} :
      /\ result.isNull <=> found = {}
      /\ found # {} => result.value = KeptValue(RestOfLine(args.body, Max(found) + 21))

C3_Witness ==
  /\ IsLocate
  /\ Cardinality(Comments(args.body)) >= 2
  /\ StartsWith(result.value, " ")
  /\ result.value # KeptValue(RestOfLine(args.body, Min(Comments(args.body)) + 21))

(***************************************************************************)
(* C4, as claimed.  updateScriptPaths changes only the value of the first  *)
(* map-reference comment, to the final segment of newMapLocation: the text *)
(* up to and including the comment's leading token and `sourceMappingURL=` *)
(* and all the text after the value are as they were; a body without a     *)
(* map-reference comment is returned unchanged.                            *)
(***************************************************************************)
C4_Original ==
  IsRetarget =>
    \E found \in {Comments(args.body)} :
    IF found = {}
    THEN result.value = args.body
    ELSE \E i \in {Min(found)} :
           result.value =
             SubSeq(args.body, 1, i + 20) \o basename(args.url)
               \o SubSeq(args.body, i + 21 + Len(KeptValue(RestOfLine(args.body, i + 21))),
                         Len(args.body))

(***************************************************************************)
(* C4, amended.  updateScriptPaths replaces the first map-reference        *)
(* comment together with the whitespace after its value, up to the last    *)
(* line end in that whitespace, by `//# sourceMappingURL=` followed by the *)
(* final segment of newMapLocation, so that a `//@` token becomes `//#`;   *)
(* the text before the comment and the text after the replaced part are    *)
(* as they were, the last reference of a body with several still reads the *)
(* same, and a body without a comment is returned unchanged.               *)
(***************************************************************************)
C4_FirstCommentReplaced ==
  IsRetarget =>
    \E found \in {Comments(args.body)} :
    IF found = {}
    THEN result.value = args.body
    ELSE \E i \in {Min(found)} :
           /\ result.value =
                SubSeq(args.body, 1, i - 1) \o "//# sourceMappingURL=" \o basename(args.url)
                  \o SubSeq(args.body, EndOfComment(args.body, i), Len(args.body))
           /\ Cardinality(found) >= 2 =>
                \E j \in {Max(found)}, k \in {Max(Comments(result.value))} :
                  RestOfLine(result.value, k + 21) = RestOfLine(args.body, j + 21)

C4_Witness ==
  /\ IsRetarget
  /\ Cardinality(Comments(args.body)) >= 2
  /\ StartsWithAt(args.body, Min(Comments(args.body)), "//@")
  /\ StartsWithAt(result.value, Min(Comments(args.body)), "//# sourceMappingURL=y.map")
  /\ RestOfLine(args.body, Min(Comments(args.body)) + 21)
       # RestOfLine(args.body, Max(Comments(args.body)) + 21)

IsPathCall(c) == c.fn = "updateSourceMapPath"

PathCallLog == SelectSeq(calls, IsPathCall)

NotRemoteScheme(sourcePath) == ~MatchesRemoteScheme(sourcePath)

\* A section whose map is there and not null.
HasNestedMap(section) ==
  section.t = "object" /\ Get(section, "map").t \notin {"null", "undefined"}

\* The sections stage has nothing to throw on: no sections, or an array of
\* objects whose map is null, missing or a document.
SectionsUsable(doc) ==
  /\ doc.t = "object"
  /\ \E sections \in {Get(doc, "sections")} :
       \/ ~Truthy(sections)
       \/ /\ sections.t = "array"
          /\ \A i \in 1..Len(sections.a) :
               /\ sections.a[i].t = "object"
               /\ Get(sections.a[i], "map").t \in {"null", "undefined", "object"}

\* A flat document whose sources are strings: the call does not throw on it.
FlatInput ==
  /\ IsRewrite
  /\ InDoc.ok
  /\ InDoc.v.t = "object"
  /\ ~Truthy(Get(InDoc.v, "sections"))
  /\ IsStringArray(Get(InDoc.v, "sources"))

InSources == StringsOf(Get(InDoc.v, "sources"))

OutSources == StringsOf(Get(OutDoc.v, "sources"))

C6_Original ==
  (FlatInput /\ ~result.threw) =>
    /\ Len(OutSources) = Len(InSources)
    /\ \A i \in 1..Len(InSources) : MatchesRemoteScheme(InSources[i]) => OutSources[i] = InSources[i]
    /\ [k \in 1..Len(PathCallLog) |-> PathCallLog[k].path] = SelectSeq(InSources, NotRemoteScheme)

(***************************************************************************)
(* C7, as claimed.  In every updateSourceMapPath call, when both packager  *)
(* roots are given and sourcePath begins with packagerRemoteRoot, the path *)
(* that goes on to path.relative is packagerLocalRoot followed by the rest *)
(* of sourcePath; in every other case it is sourcePath as it was.          *)
(***************************************************************************)
C7_Original ==
  IsRewrite =>
    \A k \in 1..Len(PathCallLog) :
      \E c \in {PathCallLog[k]} :
        IF args.remote # "" /\ args.local # "" /\ StartsWith(c.path, args.remote)
        THEN c.sub = args.local \o SubSeq(c.path, Len(args.remote) + 1, Len(c.path))
        ELSE c.sub = c.path

(***************************************************************************)
(* C8, as claimed.  No entry of the sources of a document the call         *)
(* produced contains a backslash, and, with no packager roots, an entry    *)
(* equal to sourcesRootPath followed by /a/b.js has become a/b.js.         *)
(***************************************************************************)
C8_Original ==
  (FlatInput /\ ~result.threw) =>
    \A i \in 1..Len(OutSources) :
      /\ ~HasBackslash(OutSources[i])
      /\ (args.remote = "" /\ InSources[i] = args.root \o "/a/b.js") => OutSources[i] = "a/b.js"

(***************************************************************************)
(* C9, as claimed.  For a flat document without sourcesContent, the call   *)
(* applied to what it returned, with the same other arguments, returns a   *)
(* document with the same sources, file and sourceRoot.                    *)
(***************************************************************************)
SecondPassOfFlat ==
  /\ IsRewrite
  /\ pass = 2
  /\ \E first \in {JSON_parse(orig)} :
       /\ first.ok
       /\ first.v.t = "object"
       /\ ~Truthy(Get(first.v, "sections"))
       /\ ~HasOwn(first.v, "sourcesContent")
       /\ IsStringArray(Get(first.v, "sources"))

C9_Original ==
  SecondPassOfFlat =>
    \E in \in {InDoc.v}, out \in {OutDoc.v} :
      /\ Get(out, "sources") = Get(in, "sources")
      /\ Get(out, "file") = Get(in, "file")
      /\ Get(out, "sourceRoot") = Get(in, "sourceRoot")

(***************************************************************************)
(* C9, amended.  For a flat document without sourcesContent, the call      *)
(* applied to what it returned, with the same other arguments, returns a   *)
(* document with the same file and sourceRoot and as many sources; an      *)
(* entry that matches ^[A-Za-z]{2,}:// is after each pass what it was in   *)
(* the input; all the sources are the same after both passes when not both *)
(* packager roots were given and the working directory of the process is   *)
(* sourcesRootPath.  Otherwise a relative path the first pass produced is  *)
(* resolved against the working directory and rewritten again.             *)
(***************************************************************************)
C9_SecondPass ==
  SecondPassOfFlat =>
    \E in \in {InDoc.v}, out \in {OutDoc.v} :
    \E first \in {StringsOf(Get(JSON_parse(orig).v, "sources"))},
       second \in {StringsOf(Get(in, "sources"))},
       third \in {StringsOf(Get(out, "sources"))} :
      /\ Get(out, "file") = Get(in, "file")
      /\ Get(out, "sourceRoot") = Get(in, "sourceRoot")
      /\ Len(second) = Len(first)
      /\ Len(third) = Len(first)
      /\ \A i \in 1..Len(first) :
           MatchesRemoteScheme(first[i]) => (second[i] = first[i] /\ third[i] = first[i])
      /\ (args.cwd = args.root /\ (args.remote = "" \/ args.local = "")) => third = second

C9_Witness ==
  /\ SecondPassOfFlat
  /\ args.cwd = args.root
  /\ args.remote = ""
  /\ Len(InSources) = 2
  /\ MatchesRemoteScheme(InSources[2])
  /\ StringsOf(Get(JSON_parse(orig).v, "sources"))[1] # InSources[1]
  /\ OutSources = InSources

====
